---- MODULE Spec2Model ----
(***************************************************************************)
(* Model of the top-languages card of github-stats:                        *)
(*   - api/top-langs.js                 the request handler                *)
(*   - src/fetchers/top-languages.js    retryWithBackoff, fetchTopLanguages*)
(*     The revision modelled is src/unnamed/part_001, the one that parses  *)
(*     the weights and computes percentages; line numbers refer to it      *)
(*     unless another file is named.  src/src/fetchers/top-languages.js    *)
(*     holds two earlier revisions: the first has the same                 *)
(*     retryWithBackoff, guards, error check, accumulation, weighting and  *)
(*     sort, without the weight parsing and the percentages; the second    *)
(*     calls the retryer of common/retryer.js instead.                     *)
(*                                                                         *)
(* JavaScript numbers are modelled as extended non-negative rationals:     *)
(* a finite value n/d in lowest terms, +Infinity, or NaN.  Weights (the    *)
(* exponents) are integers or NaN.  Every operation below follows the      *)
(* IEEE-754 result of the JavaScript operation on the special values; the  *)
(* rounding error of a double division is not modelled.                    *)
(***************************************************************************)
EXTENDS Integers, Sequences, FiniteSets, TLC

(***************************************************************************)
(* Bounds of the model                                                     *)
(***************************************************************************)
\* number of repositories in one upstream answer
MaxRepos == 2

(***************************************************************************)
(* Constants of the program                                                *)
(***************************************************************************)
\* retryWithBackoff = async (fn, retries = 3, delayMs = 500)
DEFAULT_RETRIES == 3
DEFAULT_DELAY_MS == 500
\* languages(first: 5): at most five language edges per repository
LANGUAGES_FIRST == 5

(***************************************************************************)
(* JavaScript numbers                                                      *)
(***************************************************************************)
RECURSIVE GCD(_, _)
GCD(a, b) == IF b = 0 THEN a ELSE GCD(b, a % b)

NaN == [k |-> "nan", n |-> 0, d |-> 0]
Infinity == [k |-> "inf", n |-> 1, d |-> 0]

\* the finite number n/d, d > 0, in lowest terms (n may be negative for weights)
Frac(n, d) ==
    LET a == IF n < 0 THEN 0 - n ELSE n
        g == GCD(a, d)
    IN  [k |-> "fin", n |-> n \div g, d |-> d \div g]

Num(n) == [k |-> "fin", n |-> n, d |-> 1]

IsNaN(x) == x.k = "nan"
IsFinite(x) == x.k = "fin"
IsZero(x) == x.k = "fin" /\ x.n = 0

RECURSIVE IntPow(_, _)
IntPow(b, e) == IF e = 0 THEN 1 ELSE b * IntPow(b, e - 1)

\* x + y for non-negative x, y
Add(x, y) ==
    IF IsNaN(x) \/ IsNaN(y) THEN NaN
    ELSE IF x.k = "inf" \/ y.k = "inf" THEN Infinity
    ELSE Frac(x.n * y.d + y.n * x.d, x.d * y.d)

\* x * y for non-negative x, y
Mul(x, y) ==
    IF IsNaN(x) \/ IsNaN(y) THEN NaN
    ELSE IF x.k = "inf" \/ y.k = "inf"
         THEN IF IsZero(x) \/ IsZero(y) THEN NaN ELSE Infinity
    ELSE Frac(x.n * y.n, x.d * y.d)

\* x / y for non-negative x, y
Div(x, y) ==
    IF IsNaN(x) \/ IsNaN(y) THEN NaN
    ELSE IF x.k = "inf" THEN (IF y.k = "inf" THEN NaN ELSE Infinity)
    ELSE IF y.k = "inf" THEN Num(0)
    ELSE IF IsZero(y) THEN (IF IsZero(x) THEN NaN ELSE Infinity)
    ELSE Frac(x.n * y.d, x.d * y.n)

\* x > y, false when either is NaN
Greater(x, y) ==
    IF IsNaN(x) \/ IsNaN(y) THEN FALSE
    ELSE IF x.k = "inf" THEN y.k # "inf"
    ELSE IF y.k = "inf" THEN FALSE
    ELSE x.n * y.d > y.n * x.d

\* Math.pow(base, w): base a non-negative number, w an integer weight or NaN
MathPow(base, w) ==
    IF IsNaN(w) THEN NaN
    ELSE IF w.n = 0 THEN Num(1)
    ELSE IF IsNaN(base) THEN NaN
    ELSE IF w.n > 0
         THEN IF base.k = "inf" THEN Infinity
              ELSE Frac(IntPow(base.n, w.n), IntPow(base.d, w.n))
    ELSE IF base.k = "inf" THEN Num(0)
    ELSE IF IsZero(base) THEN Infinity
    ELSE Frac(IntPow(base.d, 0 - w.n), IntPow(base.n, 0 - w.n))

(***************************************************************************)
(* parseFloat and the number-to-string conversion, on strings given as     *)
(* sequences of one-character strings                                      *)
(***************************************************************************)
Digits == <<"0", "1", "2", "3", "4", "5", "6", "7", "8", "9">>

IsDigit(c) == \E i \in 1..10 : Digits[i] = c
DigitVal(c) == (CHOOSE i \in 1..10 : Digits[i] = c) - 1

RECURSIVE DigitPrefix(_)
\* the longest prefix of s made of decimal digits
DigitPrefix(s) ==
    IF s = <<>> \/ ~IsDigit(Head(s)) THEN <<>>
    ELSE <<Head(s)>> \o DigitPrefix(Tail(s))

RECURSIVE DigitsValue(_)
DigitsValue(s) ==
    IF s = <<>> THEN 0
    ELSE DigitsValue(SubSeq(s, 1, Len(s) - 1)) * 10 + DigitVal(s[Len(s)])

\* parseFloat(s) for a string without fraction or exponent part: an optional
\* sign, then the longest run of digits; NaN when there is no digit
parseFloat(s) ==
    LET neg == s # <<>> /\ Head(s) = "-"
        body == IF s # <<>> /\ Head(s) \in {"-", "+"} THEN Tail(s) ELSE s
        ds == DigitPrefix(body)
    IN  IF ds = <<>> THEN NaN
        ELSE Num(IF neg THEN 0 - DigitsValue(ds) ELSE DigitsValue(ds))

RECURSIVE NatToString(_)
NatToString(n) ==
    IF n < 10 THEN <<Digits[n + 1]>>
    ELSE NatToString(n \div 10) \o <<Digits[(n % 10) + 1]>>

\* String(x) of an integer or NaN, which parseFloat applies to a non-string
NumberToString(x) ==
    IF IsNaN(x) THEN <<"N", "a", "N">>
    ELSE IF x.n < 0 THEN <<"-">> \o NatToString(0 - x.n)
    ELSE NatToString(x.n)

(***************************************************************************)
(* The remote data source: what request() resolves with                    *)
(***************************************************************************)
Langs == {"A", "B"}
SizeValues == {0, 100, 300}
LangColor(name) == IF name = "A" THEN "#f1e05a" ELSE "#3572A5"

RepoName(i) == "repo" \o ToString(i)

Edge(name, size) == [size |-> size, node |-> [color |-> LangColor(name), name |-> name]]

\* languages(first: 5, orderBy: {field: SIZE, direction: DESC}): no language
\* twice in a repository, at most five edges, sizes in descending order
EdgeLists ==
    LET MaxLen == IF Cardinality(Langs) < LANGUAGES_FIRST
                  THEN Cardinality(Langs) ELSE LANGUAGES_FIRST
        All == UNION {[1..n -> {Edge(l, s) : l \in Langs, s \in SizeValues}] : n \in 0..MaxLen}
    IN  {es \in All :
            /\ \A i, j \in 1..Len(es) : i # j => es[i].node.name # es[j].node.name
            /\ \A i \in 1..(Len(es) - 1) : es[i].size >= es[i + 1].size}

\* repositories(first: 50): the i-th repository of an answer is named repo<i>
RepoLists ==
    UNION {{[i \in 1..n |-> [name |-> RepoName(i), languages |-> [edges |-> f[i]]]] :
                f \in [1..n -> EdgeLists]} : n \in 0..MaxRepos}

\* res.data of a resolved request: a data answer or a structured error payload
DataAnswer(nodes) == [errors |-> <<>>, nodes |-> nodes]
ErrorAnswer(msg) == [errors |-> <<[message |-> msg]>>, nodes |-> <<>>]

(***************************************************************************)
(* fetchTopLanguages after the fetch has resolved (part_001 lines 70-103)  *)
(***************************************************************************)
\* the fixed exclusion list of common/envs.js
excludeRepositories == <<>>

InSeq(x, s) == \E i \in 1..Len(s) : s[i] = x

RECURSIVE FilterRepos(_, _)
\* repoNodes.filter(r => !allExcluded.includes(r.name))
FilterRepos(nodes, allExcluded) ==
    IF nodes = <<>> THEN <<>>
    ELSE (IF InSeq(Head(nodes).name, allExcluded) THEN <<>> ELSE <<Head(nodes)>>)
         \o FilterRepos(Tail(nodes), allExcluded)

RECURSIVE ScanEdges(_)
\* the language edges in the order the nested forEach visits them
ScanEdges(nodes) ==
    IF nodes = <<>> THEN <<>>
    ELSE Head(nodes).languages.edges \o ScanEdges(Tail(nodes))

IndexOfName(table, name) ==
    IF \E i \in 1..Len(table) : table[i].name = name
    THEN CHOOSE i \in 1..Len(table) : table[i].name = name
    ELSE 0

RECURSIVE Accumulate(_, _)
\* langMap after the edges have been visited; an object keeps its keys in
\* insertion order, so langMap is the sequence of its values
Accumulate(langMap, edges) ==
    IF edges = <<>> THEN langMap
    ELSE LET edge == Head(edges)
             name == edge.node.name
             i == IndexOfName(langMap, name)
             m == IF i = 0
                  THEN Append(langMap, [name |-> name, color |-> edge.node.color,
                                        size |-> Num(0), count |-> 0, percent |-> NaN])
                  ELSE langMap
             j == IndexOfName(m, name)
         IN  Accumulate([m EXCEPT ![j].size = Add(@, Num(edge.size)),
                                  ![j].count = @ + 1],
                        Tail(edges))

\* lang.size = Math.pow(lang.size, size_weight) * Math.pow(lang.count, count_weight)
WeightedSize(size, count, size_weight, count_weight) ==
    Mul(MathPow(size, size_weight), MathPow(Num(count), count_weight))

ApplyWeights(langMap, size_weight, count_weight) ==
    [i \in 1..Len(langMap) |->
        [langMap[i] EXCEPT !.size = WeightedSize(langMap[i].size, langMap[i].count,
                                                 size_weight, count_weight)]]

RECURSIVE SumSizes(_)
SumSizes(langMap) ==
    IF langMap = <<>> THEN Num(0)
    ELSE Add(SumSizes(SubSeq(langMap, 1, Len(langMap) - 1)), langMap[Len(langMap)].size)

\* reduce((sum, lang) => sum + lang.size, 0) || 1 : 0 and NaN are falsy
TotalSize(langMap) ==
    LET sum == SumSizes(langMap)
    IN  IF IsNaN(sum) \/ IsZero(sum) THEN Num(1) ELSE sum

\* lang.percent = (lang.size / totalSize) * 100
Percent(size, totalSize) == Mul(Div(size, totalSize), Num(100))

Normalize(langMap) ==
    [i \in 1..Len(langMap) |->
        [langMap[i] EXCEPT !.percent = Percent(langMap[i].size, TotalSize(langMap))]]

\* the comparator of an ascending sort
ComparePositiveAscending(a, b) == Greater(a.size, b.size)

\* the comparator (a, b) => b.size - a.size is positive when b is the larger;
\* a NaN difference (Infinity - Infinity) counts as 0
ComparePositive(a, b) == Greater(b.size, a.size)

RECURSIVE InsertSorted(_, _)
\* x goes in front of the first element the comparator puts after it
InsertSorted(sorted, x) ==
    IF sorted = <<>> THEN <<x>>
    ELSE IF ComparePositive(Head(sorted), x) THEN <<x>> \o sorted
    ELSE <<Head(sorted)>> \o InsertSorted(Tail(sorted), x)

RECURSIVE SortLangs(_)
\* Array.prototype.sort is stable: equal elements keep their order
SortLangs(langs) ==
    IF langs = <<>> THEN <<>>
    ELSE InsertSorted(SortLangs(SubSeq(langs, 1, Len(langs) - 1)), langs[Len(langs)])

\* the table fetchTopLanguages returns for a data answer
TopLangs(nodes, exclude_repo, size_weight, count_weight) ==
    LET allExcluded == excludeRepositories \o exclude_repo
        repoNodes == FilterRepos(nodes, allExcluded)
        langMap == Accumulate(<<>>, ScanEdges(repoNodes))
    IN  SortLangs(Normalize(ApplyWeights(langMap, size_weight, count_weight)))

(***************************************************************************)
(* Errors.  class and type are those of common/error.js; attempt numbers   *)
(* the fetch attempt a transport failure belongs to (0 otherwise).         *)
(***************************************************************************)
NoError == [class |-> "none", type |-> "", message |-> "", attempt |-> 0]

\* new MissingParamError(["username"])
MissingParamError(param) ==
    [class |-> "MissingParamError", type |-> "MISSING_PARAM", message |-> param, attempt |-> 0]

\* new CustomError(message, CustomError.GRAPHQL_ERROR)
CustomError(message) ==
    [class |-> "CustomError", type |-> "GRAPHQL_ERROR", message |-> message, attempt |-> 0]

\* the fault request() rejects with on the k-th attempt
TransportError(k) ==
    [class |-> "TransportError", type |-> "", message |-> "request failed", attempt |-> k]

TOKEN_NOT_FOUND == "GitHub token (PAT_1) not found."
GRAPHQL_API_ERROR == "GraphQL API error"

(***************************************************************************)
(* fetchTopLanguages before the fetch (part_001 lines 53-63)               *)
(***************************************************************************)
\* the two guards in the other order
ValidateCallTokenFirst(username, token) ==
    IF token = "" THEN CustomError(TOKEN_NOT_FOUND)
    ELSE IF username = "" THEN MissingParamError("username")
    ELSE NoError

\* lines 54-57: the fault the two guards raise, NoError when both pass
ValidateCall(username, token) ==
    IF username = "" THEN MissingParamError("username")
    ELSE IF token = "" THEN CustomError(TOKEN_NOT_FOUND)
    ELSE NoError

\* line 60: isNaN(parseFloat(size_weight)) ? 1 : parseFloat(size_weight)
SanitizeSizeWeight(arg) ==
    LET parsed == parseFloat(NumberToString(arg))
    IN  IF IsNaN(parsed) THEN Num(1) ELSE parsed

\* line 61: isNaN(parseFloat(count_weight)) ? 0 : parseFloat(count_weight)
SanitizeCountWeight(arg) ==
    LET parsed == parseFloat(NumberToString(arg))
    IN  IF IsNaN(parsed) THEN Num(0) ELSE parsed

\* line 67: res.data.errors[0]?.message || "GraphQL API error"
StructuredErrorMessage(errors) ==
    IF errors[1].message # "" THEN errors[1].message ELSE GRAPHQL_API_ERROR

\* the error payload overlooked
HasStructuredErrorIgnored(data) == FALSE

\* line 65: if (res.data.errors)
HasStructuredError(data) == data.errors # <<>>

\* a delay that grows by the initial delay instead of doubling
NextDelayLinear(delay) == delay + DEFAULT_DELAY_MS

\* line 49: the delay handed to the next retryWithBackoff frame
NextDelay(delay) == delay * 2

RetriesExhaustedBelowZero(r) == r < 0

\* line 46: if (retries <= 0) throw err
RetriesExhausted(r) == r <= 0

(***************************************************************************)
(* Collaborators of the handler that live in other files of the repository *)
(***************************************************************************)
\* translations.js
AvailableLocales == {"en"}
isLocaleAvailable(locale) == locale \in AvailableLocales

RECURSIVE parseArray(_)
\* common/ops.js: the comma separated names of a query value, given as the
\* sequence of its names and "," separators
parseArray(tokens) ==
    IF tokens = <<>> THEN <<>>
    ELSE IF Head(tokens) = "," THEN parseArray(Tail(tokens))
    ELSE <<Head(tokens)>> \o parseArray(Tail(tokens))

\* the colour options the handler hands to every renderer
ColorOptions(q) == [theme |-> q.theme]

\* an error card that drops the colour options of the request
ErrorCardDefaultColors(message, q) ==
    [body |-> "error", message |-> message, colors |-> [theme |-> "default"],
     topLangs |-> <<>>]

\* renderError({ message, renderOptions }) as the handler calls it
ErrorCard(message, q) ==
    [body |-> "error", message |-> message, colors |-> ColorOptions(q), topLangs |-> <<>>]

\* renderTopLanguages(topLangs, options) as the handler calls it
LangCard(table, q) ==
    [body |-> "card", message |-> "", colors |-> ColorOptions(q), topLangs |-> table]

(***************************************************************************)
(* The language card (part_000): constants                                 *)
(***************************************************************************)
DEFAULT_CARD_WIDTH == 300
MIN_CARD_WIDTH == 280
CARD_PADDING == 25
COMPACT_LAYOUT_BASE_HEIGHT == 90
MAXIMUM_LANGS_COUNT == 20
NORMAL_LAYOUT_DEFAULT_LANGS_COUNT == 5
COMPACT_LAYOUT_DEFAULT_LANGS_COUNT == 6
DONUT_LAYOUT_DEFAULT_LANGS_COUNT == 5
PIE_LAYOUT_DEFAULT_LANGS_COUNT == 6
DONUT_VERTICAL_LAYOUT_DEFAULT_LANGS_COUNT == 6

\* the value of an option or a field that is not there
Undefined == [k |-> "undefined", n |-> 0, d |-> 0]

\* x || 0: NaN, 0 and undefined are falsy
OrZero(x) == IF x = Undefined \/ IsNaN(x) \/ IsZero(x) THEN Num(0) ELSE x

\* x ?? 0: only undefined (or null) is replaced, NaN is kept
NullishZero(x) == IF x = Undefined THEN Num(0) ELSE x

\* x < y, false when either is NaN
Less(x, y) == Greater(y, x)

\* Math.round(n / 2) of a count n >= 0: halves round up
RoundHalf(n) == (n + 1) \div 2

MaxOf(a, b) == IF a > b THEN a ELSE b
MinOf(a, b) == IF a < b THEN a ELSE b

(***************************************************************************)
(* common/ops.js: lowercaseTrim and clampValue.  Names of the hide list    *)
(* are sequences of one-character strings.                                 *)
(***************************************************************************)
UpperCase == <<"A", "B", "C", "D", "E", "F", "G", "H", "I", "J", "K", "L", "M",
               "N", "O", "P", "Q", "R", "S", "T", "U", "V", "W", "X", "Y", "Z">>
LowerCase == <<"a", "b", "c", "d", "e", "f", "g", "h", "i", "j", "k", "l", "m",
               "n", "o", "p", "q", "r", "s", "t", "u", "v", "w", "x", "y", "z">>

ToLowerChar(c) ==
    IF \E i \in 1..Len(UpperCase) : UpperCase[i] = c
    THEN LowerCase[CHOOSE i \in 1..Len(UpperCase) : UpperCase[i] = c]
    ELSE c

IsSpace(c) == c = " "

RECURSIVE TrimStart(_)
TrimStart(s) == IF s # <<>> /\ IsSpace(Head(s)) THEN TrimStart(Tail(s)) ELSE s

RECURSIVE TrimEnd(_)
TrimEnd(s) ==
    IF s # <<>> /\ IsSpace(s[Len(s)]) THEN TrimEnd(SubSeq(s, 1, Len(s) - 1)) ELSE s

\* name.toLowerCase().trim()
lowercaseTrim(s) == TrimEnd(TrimStart([i \in 1..Len(s) |-> ToLowerChar(s[i])]))

\* a number held to the inclusive range [min, max]
clampValue(number, min, max) == MaxOf(min, MinOf(number, max))

\* the characters of a language name of a table; the names of the modelled
\* tables are one character long
NameChars(name) == <<name>>

(***************************************************************************)
(* trimTopLanguages (part_000 lines 85-102)                                *)
(***************************************************************************)
\* lines 90-94: the keys of langsToHide
LangsToHide(hide) == {lowercaseTrim(hide[i]) : i \in 1..Len(hide)}

IsHiddenExact(langsToHide, lang) == NameChars(lang.name) \in langsToHide

\* line 98: langsToHide[lowercaseTrim(lang.name)]
IsHidden(langsToHide, lang) == lowercaseTrim(NameChars(lang.name)) \in langsToHide

\* line 97: (a, b) => (b.percent || 0) - (a.percent || 0) is positive when b
\* has the larger percent
ComparePercentPositive(a, b) == Greater(OrZero(b.percent), OrZero(a.percent))

RECURSIVE InsertByPercent(_, _)
InsertByPercent(sorted, x) ==
    IF sorted = <<>> THEN <<x>>
    ELSE IF ComparePercentPositive(Head(sorted), x) THEN <<x>> \o sorted
    ELSE <<Head(sorted)>> \o InsertByPercent(Tail(sorted), x)

RECURSIVE SortByPercent(_)
\* Array.prototype.sort is stable
SortByPercent(langs) ==
    IF langs = <<>> THEN <<>>
    ELSE InsertByPercent(SortByPercent(SubSeq(langs, 1, Len(langs) - 1)), langs[Len(langs)])

RECURSIVE FilterHidden(_, _)
FilterHidden(langs, langsToHide) ==
    IF langs = <<>> THEN <<>>
    ELSE IF IsHidden(langsToHide, Head(langs)) THEN FilterHidden(Tail(langs), langsToHide)
    ELSE <<Head(langs)>> \o FilterHidden(Tail(langs), langsToHide)

\* slice(0, end)
Slice(langs, end) == SubSeq(langs, 1, MinOf(end, Len(langs)))

\* the langs of the object trimTopLanguages returns; langs_count is a whole
\* number and Object.values(topLangs) is a new array in insertion order
trimTopLanguages(table, langs_count, hide) ==
    LET langsCount == clampValue(langs_count, 1, MAXIMUM_LANGS_COUNT)
    IN  Slice(FilterHidden(SortByPercent(table), LangsToHide(hide)), langsCount)

(***************************************************************************)
(* Heights and circle lengths (part_000 lines 59-80)                       *)
(***************************************************************************)
\* 2 * Math.PI * radius, held as a multiple of pi: lengths measured on a
\* ring are numbers of pi units
getCircleLength(radius) == Num(2 * radius)

calculateCompactLayoutHeight(totalLangs) ==
    COMPACT_LAYOUT_BASE_HEIGHT + RoundHalf(totalLangs) * 25
calculateNormalLayoutHeight(totalLangs) == 45 + (totalLangs + 1) * 40
calculateDonutLayoutHeight(totalLangs) == 215 + MaxOf(totalLangs - 5, 0) * 32
calculateDonutVerticalLayoutHeight(totalLangs) == 300 + RoundHalf(totalLangs) * 25
calculatePieLayoutHeight(totalLangs) == 300 + RoundHalf(totalLangs) * 25

(***************************************************************************)
(* The layout renderers (part_000 lines 212-421), as the nodes they emit   *)
(***************************************************************************)
\* a width held to no less than 10
ProgressWidthFloored(percentage) ==
    IF Less(percentage, Num(10)) THEN Num(10) ELSE percentage

\* line 229: percentage < 10 ? percentage + 10 : percentage
ProgressWidth(percentage) ==
    IF Less(percentage, Num(10)) THEN Add(percentage, Num(10)) ELSE percentage

\* line 228: (lang.percent ?? 0) / 100 * offsetWidth
CompactSpan(lang, offsetWidth) ==
    Mul(Div(NullishZero(lang.percent), Num(100)), Num(offsetWidth))

RECURSIVE CompactProgressBar(_, _, _)
\* lines 226-243: one rect per language, progressOffset carried along
CompactProgressBar(langs, offsetWidth, progressOffset) ==
    IF langs = <<>> THEN <<>>
    ELSE LET lang == Head(langs)
             percentage == CompactSpan(lang, offsetWidth)
             output == [node |-> "rect", x |-> progressOffset,
                        width |-> ProgressWidth(percentage), fill |-> lang.color]
         IN  <<output>> \o CompactProgressBar(Tail(langs), offsetWidth,
                                              Add(progressOffset, percentage))

\* lines 221-258: the strip is left out when hideProgress is set
renderCompactLayout(langs, width, hideProgress) ==
    LET paddingRight == 50
        offsetWidth == width - paddingRight
    IN  IF hideProgress THEN <<>> ELSE CompactProgressBar(langs, offsetWidth, Num(0))

RECURSIVE DonutVerticalCircles(_, _, _, _)
\* lines 269-292: one circle per language.  The callback returns the circle
\* at line 275; the statement indent += circleLength of line 291 stands after
\* that return and never runs, so every call sees the indent of the call
\* before it.
DonutVerticalCircles(langs, totalCircleLength, indent, startDelayCoefficient) ==
    IF langs = <<>> THEN <<>>
    ELSE LET lang == Head(langs)
             percentage == NullishZero(lang.percent)
             circleLength == Mul(totalCircleLength, Div(percentage, Num(100)))
             delay == startDelayCoefficient * 100
             circle == [node |-> "circle", dasharray |-> totalCircleLength,
                        dashoffset |-> indent, size |-> percentage,
                        length |-> circleLength, stroke |-> lang.color, delay |-> delay]
         IN  <<circle>> \o DonutVerticalCircles(Tail(langs), totalCircleLength, indent,
                                                startDelayCoefficient + 1)

\* lines 263-292
renderDonutVerticalLayout(langs) ==
    LET radius == 80
        totalCircleLength == getCircleLength(radius)
    IN  DonutVerticalCircles(langs, totalCircleLength, Num(0), 1)

\* the other three renderers, as one node per language
SizeNodes(langs, kind) ==
    [i \in 1..Len(langs) |->
        [node |-> kind, size |-> NullishZero(langs[i].percent), fill |-> langs[i].color]]

\* lines 212-220
renderNormalLayout(langs, width) == SizeNodes(langs, "progress")
\* lines 308-359: a single language is drawn as a full circle of size 100
renderPieLayout(langs) ==
    IF Len(langs) = 1
    THEN <<[node |-> "pie", size |-> Num(100), fill |-> langs[1].color]>>
    ELSE SizeNodes(langs, "pie")
\* lines 384-421
renderDonutLayout(langs, width) ==
    IF Len(langs) = 1
    THEN <<[node |-> "donut", size |-> Num(100), fill |-> langs[1].color]>>
    ELSE SizeNodes(langs, "donut")

\* lines 426-430
noLanguagesDataNode(text, layout) ==
    [node |-> "text",
     x |-> IF layout = "pie" \/ layout = "donut-vertical" THEN CARD_PADDING ELSE 0,
     text |-> text]

\* lines 432-438
getDefaultLanguagesCountByLayout(layout, hide_progress) ==
    IF layout = "compact" \/ hide_progress = TRUE THEN COMPACT_LAYOUT_DEFAULT_LANGS_COUNT
    ELSE IF layout = "donut" THEN DONUT_LAYOUT_DEFAULT_LANGS_COUNT
    ELSE IF layout = "donut-vertical" THEN DONUT_VERTICAL_LAYOUT_DEFAULT_LANGS_COUNT
    ELSE IF layout = "pie" THEN PIE_LAYOUT_DEFAULT_LANGS_COUNT
    ELSE NORMAL_LAYOUT_DEFAULT_LANGS_COUNT

(***************************************************************************)
(* renderTopLanguages (part_000 lines 443-536)                             *)
(***************************************************************************)
\* lines 469-475: the width of the card for a card_width that is a number,
\* NaN or not given
CardWidth(card_width) ==
    IF card_width = Undefined \/ IsNaN(card_width) \/ IsZero(card_width)
    THEN DEFAULT_CARD_WIDTH
    ELSE IF card_width.n < MIN_CARD_WIDTH THEN MIN_CARD_WIDTH
    ELSE card_width.n

LayoutBranchWithoutEmptyCase(n, layout, hide_progress) ==
    IF layout = "pie" THEN "pie"
    ELSE IF layout = "donut-vertical" THEN "donut-vertical"
    ELSE IF layout = "compact" \/ hide_progress THEN "compact"
    ELSE IF layout = "donut" THEN "donut"
    ELSE "normal"

\* lines 481-503: the branch taken for n trimmed languages
LayoutBranch(n, layout, hide_progress) ==
    IF n = 0 THEN "nodata"
    ELSE IF layout = "pie" THEN "pie"
    ELSE IF layout = "donut-vertical" THEN "donut-vertical"
    ELSE IF layout = "compact" \/ hide_progress THEN "compact"
    ELSE IF layout = "donut" THEN "donut"
    ELSE "normal"

\* the card: its width and height, the renderers that ran, the nodes of
\* finalLayout, whether they are wrapped in the lang-items svg, and the
\* trimmed list they were made from
renderTopLanguages(table, opts) ==
    LET layout == opts.layout
        hide_progress == opts.hide_progress
        langs_count == IF opts.langs_count = Undefined
                       THEN getDefaultLanguagesCountByLayout(layout, hide_progress)
                       ELSE opts.langs_count.n
        langs == trimTopLanguages(table, langs_count, opts.hide)
        n == Len(langs)
        width == CardWidth(opts.card_width)
        branch == LayoutBranch(n, layout, hide_progress)
        wrapped == ~(layout = "pie" \/ layout = "donut-vertical")
    IN  IF branch = "nodata"
        THEN [width |-> width, height |-> COMPACT_LAYOUT_BASE_HEIGHT, invoked |-> <<>>,
              nodes |-> <<noLanguagesDataNode("langcard.nodata", layout)>>,
              wrapped |-> wrapped, langs |-> langs]
        ELSE IF branch = "pie"
        THEN [width |-> width, height |-> calculatePieLayoutHeight(n),
              invoked |-> <<"renderPieLayout">>, nodes |-> renderPieLayout(langs),
              wrapped |-> wrapped, langs |-> langs]
        ELSE IF branch = "donut-vertical"
        THEN [width |-> width, height |-> calculateDonutVerticalLayoutHeight(n),
              invoked |-> <<"renderDonutVerticalLayout">>,
              nodes |-> renderDonutVerticalLayout(langs),
              wrapped |-> wrapped, langs |-> langs]
        ELSE IF branch = "compact"
        THEN [width |-> width,
              height |-> calculateCompactLayoutHeight(n)
                            + (IF hide_progress THEN 0 - 25 ELSE 0),
              invoked |-> <<"renderCompactLayout">>,
              nodes |-> renderCompactLayout(langs, width, hide_progress),
              wrapped |-> wrapped, langs |-> langs]
        ELSE IF branch = "donut"
        THEN [width |-> width + 50, height |-> calculateDonutLayoutHeight(n),
              invoked |-> <<"renderDonutLayout">>,
              nodes |-> renderDonutLayout(langs, width + 50),
              wrapped |-> wrapped, langs |-> langs]
        ELSE [width |-> width, height |-> calculateNormalLayoutHeight(n),
              invoked |-> <<"renderNormalLayout">>,
              nodes |-> renderNormalLayout(langs, width),
              wrapped |-> wrapped, langs |-> langs]

(***************************************************************************)
(* State                                                                   *)
(***************************************************************************)
VARIABLES
    query,          \* req.query
    PAT_1,          \* process.env.PAT_1, "" when not configured
    whitelisted,    \* whether guardAccess lets the username pass
    upstream,       \* res.data the data source answers with once reached
    renderFault,    \* whether rendering the card throws
    hpc,            \* handler: "start", "awaitFetch", "done"
    headers,        \* response headers set so far
    sent,           \* the bodies handed to res.send, in order
    fpc,            \* fetchTopLanguages: "idle", "attempt", "backoff", "returned", "thrown"
    size_weight,    \* the local size_weight after line 60
    count_weight,   \* the local count_weight after line 61
    retries,        \* retries of the current retryWithBackoff frame
    delayMs,        \* delayMs of the current retryWithBackoff frame
    attempts,       \* calls of fn() so far
    waits,          \* the delays of the timers set so far
    now,            \* the clock, in ms since the request arrived
    starts,         \* the clock at the start of each attempt
    failed,         \* the faults request() has rejected with, in order
    topLangs,       \* the table fetchTopLanguages returned
    err,            \* the fault fetchTopLanguages threw
    cardTable,      \* renderTopLanguages: the table it is called with
    options,        \* renderTopLanguages: its options
    rpc,            \* renderTopLanguages: "idle", "done"
    card            \* the card renderTopLanguages returned

vars == <<query, PAT_1, whitelisted, upstream, renderFault, hpc, headers, sent,
          fpc, size_weight, count_weight, retries, delayMs, attempts, waits, now, starts,
          failed, topLangs, err, cardTable, options, rpc, card>>

\* the positions and shapes the state takes
TypeOK ==
    /\ hpc \in {"start", "awaitFetch", "done"}
    /\ fpc \in {"idle", "attempt", "backoff", "returned", "thrown"}
    /\ rpc \in {"idle", "done"}
    /\ whitelisted \in BOOLEAN
    /\ renderFault \in BOOLEAN
    /\ retries \in 0..DEFAULT_RETRIES
    /\ attempts \in 0..(DEFAULT_RETRIES + 1)
    /\ delayMs \in Nat
    /\ now \in Nat
    /\ Len(sent) <= 1
    /\ Len(starts) = attempts
    /\ Len(failed) <= attempts
    /\ err.class \in {"none", "MissingParamError", "CustomError", "TransportError"}
    /\ size_weight.k \in {"fin", "nan"}
    /\ count_weight.k \in {"fin", "nan"}

env == <<query, PAT_1, whitelisted, upstream, renderFault>>
handlerVars == <<hpc, headers, sent>>
cardVars == <<cardTable, options, rpc, card>>
fetchVars == <<fpc, size_weight, count_weight, retries, delayMs, attempts, waits, now,
               starts, failed, topLangs, err>>

\* common/access.js, as the handler uses it: a rejected request has been
\* answered by the guard itself, which hands back what res.send returned
guardAccess(q) ==
    IF whitelisted
    THEN [isPassed |-> TRUE, sends |-> <<>>]
    ELSE [isPassed |-> FALSE,
          sends |-> <<ErrorCard("This username is not whitelisted", q)>>]

(***************************************************************************)
(* Inputs                                                                  *)
(***************************************************************************)
\* the query values of size_weight and count_weight requests are made with, as
\* sequences of characters; <<>> is an absent parameter
WeightCases ==
    {<<<<>>, <<>>>>, <<<<"x">>, <<"x">>>>, <<<<"1">>, <<"0">>>>, <<<<"0">>, <<"1">>>>,
     <<<<"2">>, <<"0">>>>, <<<<"1">>, <<"1">>>>, <<<<"0">>, <<"0">>>>,
     <<<<"-", "1">>, <<"0">>>>, <<<<"1">>, <<"-", "1">>>>}

ExampleNodes ==
    <<[name |-> RepoName(1), languages |-> [edges |-> <<Edge("A", 100)>>]],
      [name |-> RepoName(2), languages |-> [edges |-> <<Edge("B", 300)>>]]>>

\* the answers the handler specification draws from
SampleAnswers ==
    {ErrorAnswer("Could not resolve to a User"), ErrorAnswer(""),
     DataAnswer(<<>>), DataAnswer(ExampleNodes)}

InitState ==
    /\ hpc = "start"
    /\ headers = [contentType |-> "", cache |-> ""]
    /\ sent = <<>>
    /\ fpc = "idle"
    /\ size_weight = NaN
    /\ count_weight = NaN
    /\ retries = 0
    /\ delayMs = 0
    /\ attempts = 0
    /\ waits = <<>>
    /\ now = 0
    /\ starts = <<>>
    /\ failed = <<>>
    /\ topLangs = <<>>
    /\ err = NoError

\* the options of a call that gives none
NoOptions ==
    [layout |-> "", hide_progress |-> FALSE, langs_count |-> Undefined, hide |-> <<>>,
     card_width |-> Undefined]

NoCard ==
    [width |-> 0, height |-> 0, invoked |-> <<>>, nodes |-> <<>>, wrapped |-> FALSE,
     langs |-> <<>>]

\* renderTopLanguages has not been called
InitCardIdle ==
    /\ cardTable = <<>>
    /\ options = NoOptions
    /\ rpc = "idle"
    /\ card = NoCard

\* any request, a few answers
Init ==
    /\ query \in [username : {"", "octocat"}, locale : {"", "en", "xx"},
                   theme : {"default", "dark"},
                   size_weight : {<<>>, <<"2">>}, count_weight : {<<>>},
                   exclude_repo : {<<>>, <<"repo1">>}]
    /\ PAT_1 \in {"", "ghp_token"}
    /\ whitelisted \in BOOLEAN
    /\ upstream \in SampleAnswers
    /\ renderFault \in BOOLEAN
    /\ InitState
    /\ InitCardIdle

\* an accepted request, any weights and any answer with data
InitAgg ==
    /\ \E w \in WeightCases, x \in {<<>>, <<"repo1">>, <<"repo2", ",", "repo1">>} :
            query = [username |-> "octocat", locale |-> "", theme |-> "default",
                     size_weight |-> w[1], count_weight |-> w[2], exclude_repo |-> x]
    /\ PAT_1 = "ghp_token"
    /\ whitelisted = TRUE
    /\ upstream \in {DataAnswer(nodes) : nodes \in RepoLists}
    /\ renderFault = FALSE
    /\ InitState
    /\ InitCardIdle

(***************************************************************************)
(* fetchTopLanguages (part_001 lines 53-104) and retryWithBackoff (42-51)  *)
(***************************************************************************)
\* the call up to its first suspension: the guards, the weights, and the
\* first fn() of retryWithBackoff(fn) with its default retries and delay
FetchTopLanguagesCall(username, exclude_repo, sw, cw) ==
    LET fault == ValidateCall(username, PAT_1)
    IN  IF fault # NoError
        THEN /\ fpc' = "thrown"
             /\ err' = fault
             /\ UNCHANGED <<size_weight, count_weight, retries, delayMs, attempts, waits,
                            now, starts, failed, topLangs>>
        ELSE /\ size_weight' = SanitizeSizeWeight(sw)
             /\ count_weight' = SanitizeCountWeight(cw)
             /\ retries' = DEFAULT_RETRIES
             /\ delayMs' = DEFAULT_DELAY_MS
             /\ attempts' = 1
             /\ starts' = <<now>>
             /\ fpc' = "attempt"
             /\ UNCHANGED <<waits, now, failed, topLangs, err>>

\* fn() resolves: retryWithBackoff returns the answer and fetchTopLanguages
\* runs to its end (lines 65-103)
AttemptResolves ==
    /\ fpc = "attempt"
    /\ IF HasStructuredError(upstream)
       THEN /\ fpc' = "thrown"
            /\ err' = CustomError(StructuredErrorMessage(upstream.errors))
            /\ UNCHANGED topLangs
       ELSE /\ fpc' = "returned"
            /\ topLangs' = TopLangs(upstream.nodes, parseArray(query.exclude_repo),
                                    size_weight, count_weight)
            /\ UNCHANGED err
    /\ UNCHANGED <<size_weight, count_weight, retries, delayMs, attempts, waits, now, starts,
                   failed>>
    /\ UNCHANGED <<env, handlerVars, cardVars>>

\* fn() rejects (lines 45-48): rethrow when no retry is left, else set the timer
AttemptFails ==
    /\ fpc = "attempt"
    /\ failed' = Append(failed, TransportError(attempts))
    /\ IF RetriesExhausted(retries)
       THEN /\ fpc' = "thrown"
            /\ err' = TransportError(attempts)
            /\ UNCHANGED waits
       ELSE /\ fpc' = "backoff"
            /\ waits' = Append(waits, delayMs)
            /\ UNCHANGED err
    /\ UNCHANGED <<size_weight, count_weight, retries, delayMs, attempts, now, starts, topLangs>>
    /\ UNCHANGED <<env, handlerVars, cardVars>>

\* the timer fires (line 49): retryWithBackoff(fn, retries - 1, delayMs * 2)
BackoffElapses ==
    /\ fpc = "backoff"
    /\ now' = now + delayMs
    /\ retries' = retries - 1
    /\ delayMs' = NextDelay(delayMs)
    /\ attempts' = attempts + 1
    /\ starts' = Append(starts, now')
    /\ fpc' = "attempt"
    /\ UNCHANGED <<size_weight, count_weight, waits, failed, topLangs, err>>
    /\ UNCHANGED <<env, handlerVars, cardVars>>

(***************************************************************************)
(* The request handler (api/top-langs.js lines 10-54)                      *)
(***************************************************************************)
\* lines 11-26: the header, the access guard, the locale check and the call
HandlerStart ==
    /\ hpc = "start"
    /\ fpc = "idle"
    /\ headers' = [headers EXCEPT !.contentType = "image/svg+xml"]
    /\ IF ~guardAccess(query).isPassed
       THEN \* line 17: return access.result
            /\ sent' = sent \o guardAccess(query).sends
            /\ hpc' = "done"
            /\ UNCHANGED fetchVars
       ELSE IF query.locale # "" /\ ~isLocaleAvailable(query.locale)
       THEN /\ sent' = Append(sent, ErrorCard("Locale not found", query))
            /\ hpc' = "done"
            /\ UNCHANGED fetchVars
       ELSE /\ FetchTopLanguagesCall(query.username, parseArray(query.exclude_repo),
                                     parseFloat(query.size_weight),
                                     parseFloat(query.count_weight))
            /\ hpc' = "awaitFetch"
            /\ UNCHANGED sent
    /\ UNCHANGED <<env, cardVars>>

\* lines 28-49, and 50-53 when rendering throws
HandlerResume ==
    /\ hpc = "awaitFetch"
    /\ fpc = "returned"
    /\ IF renderFault
       THEN /\ headers' = [headers EXCEPT !.cache = "error"]
            /\ sent' = Append(sent, ErrorCard("render failed", query))
       ELSE /\ headers' = [headers EXCEPT !.cache = "ok"]
            /\ sent' = Append(sent, LangCard(topLangs, query))
    /\ hpc' = "done"
    /\ UNCHANGED <<env, fetchVars, cardVars>>

\* lines 50-53: the fault of the awaited call is caught
HandlerCatch ==
    /\ hpc = "awaitFetch"
    /\ fpc = "thrown"
    /\ headers' = [headers EXCEPT !.cache = "error"]
    /\ sent' = Append(sent, ErrorCard(err.message, query))
    /\ hpc' = "done"
    /\ UNCHANGED <<env, fetchVars, cardVars>>

Next ==
    \/ HandlerStart
    \/ AttemptResolves
    \/ AttemptFails
    \/ BackoffElapses
    \/ HandlerResume
    \/ HandlerCatch

Spec == Init /\ [][Next]_vars

\* the aggregation alone: the call and the resolution of its first attempt
NextAgg ==
    \/ HandlerStart
    \/ AttemptResolves

SpecAgg == InitAgg /\ [][NextAgg]_vars

(***************************************************************************)
(* Properties of the retried fetch and of the handler, under Spec          *)
(***************************************************************************)
RECURSIVE SumSeq(_)
SumSeq(q) == IF q = <<>> THEN 0 ELSE Head(q) + SumSeq(Tail(q))

\* C1: when the transport has failed on all 4 attempts (the first and 3
\* retries), fetchTopLanguages has raised an UpstreamError (a CustomError of
\* type GRAPHQL_ERROR) carrying the failure of the final attempt, not the raw
\* transport failure, and has returned no table.
C1_ExhaustedRaisesUpstreamError ==
    Len(failed) = 4 =>
        /\ fpc = "thrown"
        /\ topLangs = <<>>
        /\ err.class = "CustomError"
        /\ err.type = "GRAPHQL_ERROR"
        /\ err.message = failed[4].message
        /\ err # failed[4]

\* C2: the wait after the i-th failed attempt is 500ms * 2^(i-1); attempt
\* i+1 starts exactly when the wait after attempt i has elapsed and no attempt
\* starts during a wait; a call whose first k <= 3 attempts failed and whose
\* attempt k+1 was answered with data has returned without raising, after a
\* total backoff of the first k waits (500 + 1000 for k = 2).
C2_BackoffSchedule ==
    /\ \A i \in 1..Len(waits) : waits[i] = 500 * IntPow(2, i - 1)
    /\ Len(waits) <= 3
    /\ Len(starts) = attempts
    /\ \A i \in 2..Len(starts) :
            /\ i - 1 <= Len(waits)
            /\ starts[i] = starts[i - 1] + waits[i - 1]
    /\ fpc = "backoff" => attempts = Len(waits) /\ Len(failed) = attempts
    /\ (fpc \in {"returned", "thrown"} /\ attempts > 0 /\ Len(failed) < attempts
            /\ upstream.errors = <<>>) =>
            /\ fpc = "returned"
            /\ err = NoError
            /\ Len(failed) <= 3
            /\ Len(waits) = Len(failed)
            /\ now = SumSeq(waits)
            /\ (Len(failed) = 2 => now = 500 + 1000)

\* two failed attempts, then an answer with data
C2_Witness ==
    /\ fpc = "returned"
    /\ Len(failed) = 2
    /\ waits = <<500, 1000>>
    /\ now = 1500
    /\ topLangs # <<>>

\* three failed attempts, all three waits, then an answer
C2_WitnessThree ==
    /\ fpc = "returned"
    /\ waits = <<500, 1000, 2000>>

\* C3: an attempt that is answered with a structured error payload makes
\* fetchTopLanguages throw at once a CustomError of type GRAPHQL_ERROR with the
\* upstream message (the fixed text when the payload has none); that step
\* starts no attempt and sets no timer, and nothing follows it in the call.
C3_StructuredErrorFailsFast ==
    [][/\ (fpc = "attempt" /\ failed' = failed /\ fpc' # "attempt" /\ upstream.errors # <<>>) =>
            /\ fpc' = "thrown"
            /\ err'.class = "CustomError"
            /\ err'.type = "GRAPHQL_ERROR"
            /\ err'.message = IF upstream.errors[1].message # ""
                              THEN upstream.errors[1].message
                              ELSE "GraphQL API error"
            /\ attempts' = attempts
            /\ waits' = waits
            /\ starts' = starts
            /\ now' = now
            /\ topLangs' = <<>>
       /\ fpc = "thrown" =>
            /\ fpc' = "thrown"
            /\ err' = err
            /\ attempts' = attempts
            /\ waits' = waits
            /\ starts' = starts
            /\ failed' = failed]_vars

\* a structured error answered to the second attempt, reported by the handler
C3_Witness ==
    /\ fpc = "thrown"
    /\ err = CustomError("Could not resolve to a User")
    /\ Len(failed) = 1
    /\ attempts = 2
    /\ waits = <<500>>
    /\ hpc = "done"

\* C4: a call with an empty username has thrown MissingParamError, and a call
\* with a username but no PAT_1 has thrown the token-not-found CustomError; in
\* both cases no attempt was made, no timer set and no time spent, and with
\* both missing it is the username fault that is raised.
C4_FailFastBeforeFetch ==
    /\ (fpc # "idle" /\ query.username = "") =>
            /\ fpc = "thrown"
            /\ err.class = "MissingParamError"
            /\ err.message = "username"
            /\ attempts = 0 /\ starts = <<>> /\ waits = <<>> /\ failed = <<>> /\ now = 0
            /\ topLangs = <<>>
    /\ (fpc # "idle" /\ query.username # "" /\ PAT_1 = "") =>
            /\ fpc = "thrown"
            /\ err.class = "CustomError"
            /\ err.message = "GitHub token (PAT_1) not found."
            /\ attempts = 0 /\ starts = <<>> /\ waits = <<>> /\ failed = <<>> /\ now = 0
            /\ topLangs = <<>>

\* neither a username nor a token: the username fault
C4_Witness ==
    /\ fpc = "thrown"
    /\ query.username = ""
    /\ PAT_1 = ""
    /\ err.class = "MissingParamError"
    /\ attempts = 0

\* a username and no token: the token fault
C4_WitnessCredential ==
    /\ fpc = "thrown"
    /\ query.username # ""
    /\ PAT_1 = ""
    /\ err.message = "GitHub token (PAT_1) not found."

C5_WitnessRender ==
    /\ hpc = "done"
    /\ fpc = "returned"
    /\ renderFault
    /\ query.theme = "dark"
    /\ sent[1].body = "error"

(***************************************************************************)
(* Properties of the aggregation, under SpecAgg                            *)
(***************************************************************************)
\* langMap as it stands before the weights are applied
RawLangMap ==
    Accumulate(<<>>, ScanEdges(FilterRepos(upstream.nodes,
                                           excludeRepositories \o parseArray(query.exclude_repo))))

RawOf(name) == RawLangMap[IndexOfName(RawLangMap, name)]

\* the position of the first edge of a language in the scan of the edges
FirstSeen(name) ==
    LET edges == ScanEdges(FilterRepos(upstream.nodes,
                                       excludeRepositories \o parseArray(query.exclude_repo)))
    IN  CHOOSE i \in 1..Len(edges) :
            /\ edges[i].node.name = name
            /\ \A j \in 1..(i - 1) : edges[j].node.name # name

\* x rounded to two decimals, Math.round(x * 100) / 100, for a finite x >= 0
Round2(x) ==
    IF ~IsFinite(x) THEN x
    ELSE Frac((200 * x.n + x.d) \div (2 * x.d), 100)

\* C6: every language of the returned table has a finite size >= 0 and a
\* finite percent >= 0.
C6_SizesAndPercentsFinite ==
    fpc = "returned" =>
        \A i \in 1..Len(topLangs) :
            /\ IsFinite(topLangs[i].size) /\ topLangs[i].size.n >= 0
            /\ IsFinite(topLangs[i].percent) /\ topLangs[i].percent.n >= 0

\* a factor of the weighting as the specification words it: 1 for a weight of
\* exactly 0, else the base (1 for a base of 0) raised to the weight
SpecFactor(base, w) ==
    IF w = Num(0) THEN Num(1)
    ELSE IF IsZero(base) THEN MathPow(Num(1), w)
    ELSE MathPow(base, w)

\* C7: the weighted size of every language is f(size, size_weight) *
\* g(count, count_weight), each factor being 1 for a weight of 0, computed
\* with base 1 for a base of 0 and a weight other than 0, and base^weight
\* otherwise.
C7_WeightedSizeBySpecFactors ==
    fpc = "returned" =>
        \A i \in 1..Len(topLangs) :
            LET raw == RawOf(topLangs[i].name)
            IN  topLangs[i].size = Mul(SpecFactor(raw.size, size_weight),
                                       SpecFactor(Num(raw.count), count_weight))

\* C8: once the weights are set, size_weight is the parsed query value, or 1
\* when that is NaN or negative, and count_weight is the parsed query value,
\* or 0 when that is NaN or negative; neither is NaN or negative.
C8_WeightsSanitized ==
    fpc \in {"attempt", "backoff", "returned"} =>
        LET sw == parseFloat(query.size_weight)
            cw == parseFloat(query.count_weight)
        IN  /\ size_weight = IF IsNaN(sw) \/ sw.n < 0 THEN Num(1) ELSE sw
            /\ count_weight = IF IsNaN(cw) \/ cw.n < 0 THEN Num(0) ELSE cw
            /\ IsFinite(size_weight) /\ size_weight.n >= 0
            /\ IsFinite(count_weight) /\ count_weight.n >= 0

\* C9: every language of the returned table has percent =
\* round2(size / total * 100), total being the sum of the weighted sizes, or
\* 1 when that sum is not positive.
C9_PercentRoundedToTwoDecimals ==
    fpc = "returned" =>
        LET sum == SumSizes(topLangs)
            total == IF IsZero(sum) THEN Num(1) ELSE sum
        IN  IsFinite(sum) =>
                \A i \in 1..Len(topLangs) :
                    topLangs[i].percent = Round2(Mul(Div(topLangs[i].size, total), Num(100)))

\* the example of the specification: A:100 and B:300 give 25.00 and 75.00
C9_ExampleReached ==
    /\ fpc = "returned"
    /\ Len(topLangs) = 2
    /\ topLangs[1].name = "B" /\ topLangs[1].percent = Num(75)
    /\ topLangs[2].name = "A" /\ topLangs[2].percent = Num(25)
    /\ RawOf("A").size = Num(100) /\ RawOf("B").size = Num(300)

\* C10: in the returned table no language has a larger weighted size than one
\* before it, and of two languages with the same weighted size the one whose
\* first edge was scanned first comes first; the table holds every scanned
\* language once.
C10_DescendingAndStable ==
    fpc = "returned" =>
        /\ \A i, j \in 1..Len(topLangs) :
                i < j =>
                    /\ ~Greater(topLangs[j].size, topLangs[i].size)
                    /\ topLangs[i].name # topLangs[j].name
                    /\ (topLangs[i].size = topLangs[j].size =>
                            FirstSeen(topLangs[i].name) < FirstSeen(topLangs[j].name))
        /\ Len(topLangs) = Len(RawLangMap)
        /\ \A i \in 1..Len(topLangs) : IndexOfName(RawLangMap, topLangs[i].name) # 0

\* two languages of the same weighted size, B scanned before A
C10_Witness ==
    /\ fpc = "returned"
    /\ Len(topLangs) = 2
    /\ topLangs[1].size = topLangs[2].size
    /\ topLangs[1].name = "B"
    /\ RawOf("A").count = 2

\* a language scanned second comes first because its size is larger
C10_WitnessReordered ==
    /\ fpc = "returned"
    /\ Len(topLangs) = 2
    /\ Greater(topLangs[1].size, topLangs[2].size)
    /\ FirstSeen(topLangs[1].name) > FirstSeen(topLangs[2].name)

(***************************************************************************)
(* The card alone: renderTopLanguages applied to a table and options       *)
(***************************************************************************)
\* one repository holding the given edges
Repo(i, edges) == [name |-> RepoName(i), languages |-> [edges |-> edges]]

\* tables the aggregator returns: none, one language, 75/25, a thin slice
\* (about 97.3/2.7), a tie, three languages (60/20/20) and two languages of size 0
SampleTables ==
    {TopLangs(<<>>, <<>>, Num(1), Num(0)),
     TopLangs(<<Repo(1, <<Edge("A", 100)>>)>>, <<>>, Num(1), Num(0)),
     TopLangs(ExampleNodes, <<>>, Num(1), Num(0)),
     TopLangs(<<Repo(1, <<Edge("B", 300), Edge("A", 100)>>), Repo(2, <<Edge("B", 300)>>)>>,
              <<>>, Num(2), Num(0)),
     TopLangs(<<Repo(1, <<Edge("A", 100), Edge("B", 100)>>)>>, <<>>, Num(1), Num(0)),
     TopLangs(<<Repo(1, <<Edge("B", 300), Edge("A", 100), Edge("C", 100)>>)>>,
              <<>>, Num(1), Num(0)),
     TopLangs(<<Repo(1, <<Edge("A", 0), Edge("B", 0)>>)>>, <<>>, Num(1), Num(0))}

Layouts == {"", "normal", "compact", "donut", "donut-vertical", "pie"}

\* langs_count: not given, or a whole number
LangsCounts == {Undefined, Num(0 - 1), Num(0), Num(1), Num(2), Num(25)}

\* hide: nothing, "b", " A ", "a" and "B", "x"
HideLists == {<<>>, <<<<"b">>>>, <<<<" ", "A", " ">>>>, <<<<"a">>, <<"B">>>>, <<<<"x">>>>}

\* card_width after parseInt: not given, NaN, or a number
CardWidths == {Undefined, NaN, Num(200), Num(400)}

InitCard ==
    /\ query = [username |-> "octocat", locale |-> "", theme |-> "default",
                size_weight |-> <<>>, count_weight |-> <<>>, exclude_repo |-> <<>>]
    /\ PAT_1 = "ghp_token"
    /\ whitelisted = TRUE
    /\ upstream = DataAnswer(<<>>)
    /\ renderFault = FALSE
    /\ InitState
    /\ cardTable \in SampleTables
    /\ options \in [layout : Layouts, hide_progress : BOOLEAN, langs_count : LangsCounts,
                     hide : HideLists, card_width : CardWidths]
    /\ rpc = "idle"
    /\ card = NoCard

\* one call of renderTopLanguages; the table is read, never written
RenderTopLanguages ==
    /\ rpc = "idle"
    /\ card' = renderTopLanguages(cardTable, options)
    /\ rpc' = "done"
    /\ UNCHANGED <<cardTable, options>>
    /\ UNCHANGED <<env, handlerVars, fetchVars>>

NextCard == RenderTopLanguages

SpecCard == InitCard /\ [][NextCard]_vars

(***************************************************************************)
(* Properties of the card, under SpecCard                                  *)
(***************************************************************************)
\* the count trimTopLanguages was called with
RequestedCount ==
    IF options.langs_count = Undefined
    THEN getDefaultLanguagesCountByLayout(options.layout, options.hide_progress)
    ELSE options.langs_count.n

\* whether a name equals a name of the hide list once both are lower-cased
\* and trimmed
NamedInHideList(name) ==
    \E i \in 1..Len(options.hide) :
        lowercaseTrim(options.hide[i]) = lowercaseTrim(NameChars(name))

\* no entry of the list is hidden, and every entry is an entry of the table,
\* taken once
VisibleEntriesOfTable(langs, table) ==
    /\ \A i \in 1..Len(langs) : ~NamedInHideList(langs[i].name)
    /\ \A i \in 1..Len(langs) : \E j \in 1..Len(table) : langs[i] = table[j]
    /\ \A i, j \in 1..Len(langs) : i # j => langs[i].name # langs[j].name

\* C11 as stated: for every table, requested count and hide list,
\* trimTopLanguages returns at most min(requestedCount, 20) entries, none of
\* them named in the hide list under case-insensitive, whitespace-trimmed
\* comparison, each of them an unmodified entry of the table.
C11_AtMostMinOfRequested ==
    rpc = "done" =>
        /\ Len(card.langs) <= MinOf(RequestedCount, MAXIMUM_LANGS_COUNT)
        /\ VisibleEntriesOfTable(card.langs, cardTable)

\* C11, amended: for every table, requested count and hide list,
\* trimTopLanguages returns at most max(1, min(requestedCount, 20)) entries
\* (the count clamped into [1, 20]), never an entry whose name equals a
\* hide-list name under case-insensitive, whitespace-trimmed comparison, only
\* entries of the input table as they are, and leaves the table as it was.
C11_TrimBounded ==
    [][(rpc = "idle" /\ rpc' = "done") =>
            /\ Len(card'.langs)
                    <= MaxOf(1, MinOf(RequestedCount, MAXIMUM_LANGS_COUNT))
            /\ Len(card'.langs) <= Len(cardTable)
            /\ VisibleEntriesOfTable(card'.langs, cardTable)
            /\ cardTable' = cardTable]_vars

\* a count of 0 gave one entry, and " A " hid the language A of the table
C11_Witness ==
    /\ rpc = "done"
    /\ options.langs_count = Num(0)
    /\ options.hide = <<<<" ", "A", " ">>>>
    /\ \E j \in 1..Len(cardTable) : cardTable[j].name = "A"
    /\ Len(cardTable) = 3
    /\ Len(card.langs) = 1
    /\ card.langs[1].name = "B"

\* a count of 25 and three visible languages: all three are returned
C11_WitnessAll ==
    /\ rpc = "done"
    /\ options.langs_count = Num(25)
    /\ Len(card.langs) = 3

\* C12: when the trimmed list is empty (empty table, or every language
\* hidden), renderTopLanguages returns a card whose only node is the no-data
\* text node and whose height is the compact base height 90, for every
\* layout and every hide_progress; no layout renderer has run and the width
\* is the card width without the 50 of the donut layout.
C12_NoDataCard ==
    (rpc = "done" /\ Len(card.langs) = 0) =>
        /\ Len(card.nodes) = 1
        /\ card.nodes[1].node = "text"
        /\ card.nodes[1].text = "langcard.nodata"
        /\ card.nodes[1] = noLanguagesDataNode("langcard.nodata", options.layout)
        /\ card.height = 90
        /\ card.invoked = <<>>
        /\ card.width = CardWidth(options.card_width)

\* every language of a two-language table is hidden, donut layout
C12_Witness ==
    /\ rpc = "done"
    /\ Len(cardTable) = 2
    /\ options.hide = <<<<"a">>, <<"B">>>>
    /\ options.layout = "donut"
    /\ options.card_width = Num(400)
    /\ Len(card.langs) = 0
    /\ card.width = 400

\* an empty table, pie layout with hide_progress
C12_WitnessEmptyTable ==
    /\ rpc = "done"
    /\ cardTable = <<>>
    /\ options.layout = "pie"
    /\ options.hide_progress
    /\ card.height = 90

\* the card shows the compact layout with its progress strip
CompactStripDrawn ==
    /\ rpc = "done"
    /\ card.invoked = <<"renderCompactLayout">>
    /\ ~options.hide_progress

\* span_i = percent_i / 100 * (width - 50), for a finite percent
SpanOf(i) ==
    LET p == NullishZero(card.langs[i].percent)
    IN  Frac(p.n * (card.width - 50), p.d * 100)

RECURSIVE SumOfSpans(_)
\* the spans of the first k languages, added up
SumOfSpans(k) == IF k = 0 THEN Num(0) ELSE Add(SumOfSpans(k - 1), SpanOf(k))

\* C13 as stated: in the strip of the compact layout the i-th rectangle is
\* max(span_i, 10) wide, a span under 10 being drawn exactly 10 wide, and its
\* x is the sum of the spans of the languages before it.
C13_WidthAtLeastTen ==
    CompactStripDrawn =>
        /\ Len(card.nodes) = Len(card.langs)
        /\ \A i \in 1..Len(card.nodes) :
                /\ card.nodes[i].width
                        = (IF Less(SpanOf(i), Num(10)) THEN Num(10) ELSE SpanOf(i))
                /\ card.nodes[i].x = SumOfSpans(i - 1)

\* C13, amended: in the strip of the compact layout the i-th rectangle is
\* span_i + 10 wide when span_i is under 10 and span_i wide otherwise, where
\* span_i = percent_i / 100 * (width - 50), and its x is the sum of the spans
\* span_j, without the added 10, of the languages j < i.
C13_WidthPlusTen ==
    CompactStripDrawn =>
        /\ Len(card.nodes) = Len(card.langs)
        /\ \A i \in 1..Len(card.nodes) :
                /\ card.nodes[i].width
                        = (IF Less(SpanOf(i), Num(10)) THEN Add(SpanOf(i), Num(10))
                           ELSE SpanOf(i))
                /\ card.nodes[i].x = SumOfSpans(i - 1)

\* a language of 100/37 (about 2.7) percent on a card of width 300: a span
\* of 250/37 (about 6.76) drawn 620/37 (about 16.76) wide at x = 9000/37
C13_Witness ==
    /\ CompactStripDrawn
    /\ card.width = 300
    /\ Len(card.nodes) = 2
    /\ SpanOf(2) = Frac(250, 37)
    /\ card.nodes[2].width = Frac(620, 37)
    /\ card.nodes[2].x = Frac(9000, 37)

\* three languages: the third rectangle starts where the first two spans end
C13_WitnessThree ==
    /\ CompactStripDrawn
    /\ Len(card.nodes) = 3
    /\ card.nodes[3].x = Add(SpanOf(1), SpanOf(2))
    /\ Greater(SpanOf(2), Num(10))

\* the card shows the donut-vertical layout
DonutVerticalDrawn ==
    /\ rpc = "done"
    /\ card.invoked = <<"renderDonutVerticalLayout">>

\* circumference * percent_i / 100 with the circumference of radius 80, in
\* units of pi
SegmentLength(i) ==
    LET p == NullishZero(card.langs[i].percent)
    IN  Frac(160 * p.n, 100 * p.d)

RECURSIVE SumOfSegments(_)
\* the lengths of the first k segments, added up
SumOfSegments(k) == IF k = 0 THEN Num(0) ELSE Add(SumOfSegments(k - 1), SegmentLength(k))

\* C14: in the donut-vertical layout the dash-offset of the i-th segment is
\* the sum of circumference * percent_j / 100 over the languages j < i, so
\* with two or more languages of non-zero percent the offsets are strictly
\* increasing and each segment starts where the one before it ends.
C14_DashOffsetCumulative ==
    DonutVerticalDrawn =>
        /\ Len(card.nodes) = Len(card.langs)
        /\ \A i \in 1..Len(card.nodes) : card.nodes[i].dashoffset = SumOfSegments(i - 1)
        /\ (\A i \in 1..Len(card.langs) : ~IsZero(NullishZero(card.langs[i].percent))) =>
                \A i \in 1..(Len(card.nodes) - 1) :
                    /\ Greater(card.nodes[i + 1].dashoffset, card.nodes[i].dashoffset)
                    /\ card.nodes[i + 1].dashoffset
                            = Add(card.nodes[i].dashoffset, SegmentLength(i))

(***************************************************************************)
(* Termination of the retried fetch.  The call is one chain of awaits: an  *)
(* attempt that completes is followed by the code after its await, and a   *)
(* timer that was set fires, so each of these steps is taken once enabled. *)
(***************************************************************************)
\* line 44: the awaited fn() settles; under Next these are the steps of
\* AttemptResolves and AttemptFails, one of which can be taken whenever an
\* attempt is outstanding
AttemptCompletes ==
    /\ fpc = "attempt"
    /\ fpc' \in {"returned", "thrown", "backoff"}

FairSpec ==
    /\ Init
    /\ [][Next]_vars
    /\ WF_fpc(AttemptCompletes)
    /\ WF_vars(BackoffElapses)

\* an attempt of the call has not completed
AttemptOutstanding == fpc = "attempt"

\* C15: provided every fetch attempt and every backoff wait completes, a
\* call of fetchTopLanguages that is waiting on its fetch eventually returns
\* a table or raises; the fetch is attempted at most 4 times per call; each
\* attempt after the first starts with fewer retries left than the one that
\* failed; and an attempt starts only when every earlier attempt of the call
\* has failed, so at most one attempt is outstanding at any time.
C15_CallTerminates ==
    /\ (fpc \in {"attempt", "backoff"}) ~> (fpc \in {"returned", "thrown"})
    /\ [](attempts <= DEFAULT_RETRIES + 1)
    /\ [](attempts - Len(failed) <= 1)
    /\ [](AttemptOutstanding => Len(failed) = attempts - 1)
    /\ [][(Len(failed') > Len(failed) /\ fpc' = "backoff") => retries > 0]_vars
    /\ [][(attempts' > attempts /\ attempts >= 1) =>
                /\ attempts' = attempts + 1
                /\ retries' < retries
                /\ retries' >= 0
                /\ ~AttemptOutstanding
                /\ Len(failed) = attempts]_vars

\* the fourth attempt has failed and the call has raised
C15_Witness ==
    /\ fpc = "thrown"
    /\ attempts = 4
    /\ Len(failed) = 4
    /\ retries = 0

\* two attempts failed, the third was answered and the call returned
C15_WitnessReturned ==
    /\ fpc = "returned"
    /\ attempts = 3
    /\ Len(failed) = 2
    /\ retries = 1

====
